---- MODULE Spec2Model ----
(***************************************************************************)
(* Model of the two scripts of tele2tube:                                  *)
(*   process_videos.py   main(): the batch loop over VIDEO_LINKS           *)
(*   uploader_script.py  download_video_and_upload(link) and upload_video  *)
(* One behaviour runs one script (variable script).  An item is the index  *)
(* of a link in VIDEO_LINKS; the single-item script processes item 1.      *)
(* Telegram, Gemini and the YouTube client library are the environment:    *)
(* each call returns or raises nondeterministically.                       *)
(***************************************************************************)
EXTENDS Integers, Sequences, FiniteSets

VARIABLES
    script,       \* "batch" (process_videos.py) or "single" (uploader_script.py)
    pc,           \* position in the running script
    links,        \* VIDEO_LINKS after split(','): "" is an empty entry, "L" a link
    idx,          \* index of the link the for loop is at (0 before the loop)
    file_path,    \* file_path / downloaded_filepath: NoPath, or the item whose file it names
    client,       \* uploader_script: the local `client` is not None
    exiting,      \* uploader_script: a SystemExit is propagating
    total,        \* number of chunks of the file of the current upload request
    acked,        \* chunks the service has acknowledged for the current request
    response,     \* local `response`: "None", "id" (has 'id') or "noid"
    retry,        \* upload_video: local `retry`
    error,        \* upload_video: kind of the exception held by local `error`
    sleeps,       \* upload_video: arguments of the time.sleep calls, in order
    raised,       \* upload_video: number of next_chunk() calls that raised
    retval,       \* upload_video: "unset", "None" or "id"
    begun,        \* items whose processing has started
    finished,     \* items whose processing has ended
    failed,       \* items reported with "FAILED to process link"
    dl,           \* item -> result of client.download_media
    disk,         \* item -> state of the item's local file
    inserts,      \* item -> number of videos().insert requests created
    calls,        \* item -> number of next_chunk() calls
    err,          \* item -> kind of the exception raised while processing it
    playlistErr   \* items whose playlist step raised

vars == <<script, pc, links, idx, file_path, client, exiting, total, acked,
          response, retry, error, sleeps, raised, retval, begun, finished,
          failed, dl, disk, inserts, calls, err, playlistErr>>

\* ---- bounds ----
MaxLinks == 2
MaxChunks == 2

\* ---- program constants ----
MAX_RETRIES == 5

NoPath == 0

Items == 1..Len(links)

\* Kinds of exception request.next_chunk() raises.
ChunkErrors == {"transient", "quota", "other"}

\* What one call of request.next_chunk() can do when ack of tot chunks are
\* acknowledged: raise, report progress, or return the terminal response.
NextChunkOutcomes(ack, tot) ==
    ChunkErrors \cup (IF ack + 1 < tot THEN {"progress"} ELSE {"id", "noid"})

LinkLists == UNION {[1..n -> {"", "L"}] : n \in 1..MaxLinks}

Init ==
    /\ script \in {"batch", "single"}
    /\ links \in (IF script = "batch" THEN LinkLists ELSE {<<"L">>})
    /\ pc = (IF script = "batch" THEN "m_start" ELSE "d_secrets")
    /\ idx = (IF script = "batch" THEN 0 ELSE 1)
    /\ file_path = NoPath
    /\ client = FALSE
    /\ exiting = FALSE
    /\ total = 0
    /\ acked = 0
    /\ response = "None"
    /\ retry = 0
    /\ error = "None"
    /\ sleeps = <<>>
    /\ raised = 0
    /\ retval = "unset"
    /\ begun = {}
    /\ finished = {}
    /\ failed = {}
    /\ dl = [i \in Items |-> "none"]
    /\ disk = [i \in Items |-> "absent"]
    /\ inserts = [i \in Items |-> 0]
    /\ calls = [i \in Items |-> 0]
    /\ err = [i \in Items |-> "none"]
    /\ playlistErr = {}

uploadVars == <<total, acked, response, retry, error, sleeps, raised, retval>>
itemVars == <<begun, finished, failed, dl, disk, inserts, calls, err, playlistErr>>
fixedVars == <<script, links, client, exiting>>

\* An exception of kind k leaves the try block of main for its except clause.
Raise(k) ==
    /\ err' = [err EXCEPT ![idx] = k]
    /\ pc' = "m_except"

(***************************************************************************)
(* process_videos.py: main()                                               *)
(***************************************************************************)

\* if not VIDEO_LINKS or VIDEO_LINKS == ['']: return
MStart ==
    /\ pc = "m_start"
    /\ pc' = (IF links = <<"">> THEN "returned" ELSE "m_connect")
    /\ UNCHANGED <<idx, file_path, uploadVars, itemVars, fixedVars>>

\* connect; return when the session is not authorised; get_youtube_service()
MConnect ==
    /\ pc = "m_connect"
    /\ \E authorized \in BOOLEAN :
           pc' = (IF authorized THEN "m_for" ELSE "returned")
    /\ UNCHANGED <<idx, file_path, uploadVars, itemVars, fixedVars>>

\* for link in VIDEO_LINKS: link = link.strip(); if not link: continue
MFor ==
    /\ pc = "m_for"
    /\ IF idx = Len(links)
       THEN /\ pc' = "m_disconnect"
            /\ UNCHANGED <<idx, begun>>
       ELSE /\ idx' = idx + 1
            /\ IF links[idx + 1] = ""
               THEN /\ pc' = "m_for"
                    /\ UNCHANGED begun
               ELSE /\ pc' = "m_resolve"
                    /\ begun' = begun \cup {idx + 1}
    /\ UNCHANGED <<file_path, uploadVars, fixedVars, finished, failed, dl,
                   disk, inserts, calls, err, playlistErr>>

\* entity, msg_id = await parse_telegram_link(client, link)
MResolve ==
    /\ pc = "m_resolve"
    /\ \/ /\ pc' = "m_get_messages"
          /\ UNCHANGED err
       \/ Raise("resolve")
    /\ UNCHANGED <<idx, file_path, uploadVars, fixedVars, begun, finished,
                   failed, dl, disk, inserts, calls, playlistErr>>

\* message = await client.get_messages(...); no media: continue
MGetMessages ==
    /\ pc = "m_get_messages"
    /\ \/ /\ pc' = "m_analyze"
          /\ UNCHANGED <<err, finished>>
       \/ /\ pc' = "m_for"
          /\ finished' = finished \cup {idx}
          /\ UNCHANGED err
       \/ /\ Raise("get_messages")
          /\ UNCHANGED finished
    /\ UNCHANGED <<idx, file_path, uploadVars, fixedVars, begun, failed, dl,
                   disk, inserts, calls, playlistErr>>

\* metadata = analyze_content(original_text)
MAnalyze ==
    /\ pc = "m_analyze"
    /\ \/ /\ pc' = "m_download"
          /\ UNCHANGED err
       \/ Raise("analyze")
    /\ UNCHANGED <<idx, file_path, uploadVars, fixedVars, begun, finished,
                   failed, dl, disk, inserts, calls, playlistErr>>

\* file_path = await client.download_media(message, file="downloads/", ...)
MDownload ==
    /\ pc = "m_download"
    /\ \/ \E n \in 1..MaxChunks :
            /\ file_path' = idx
            /\ total' = n
            /\ dl' = [dl EXCEPT ![idx] = "path"]
            /\ disk' = [disk EXCEPT ![idx] = "complete"]
            /\ pc' = "m_body"
            /\ UNCHANGED err
       \/ /\ file_path' = NoPath
          /\ dl' = [dl EXCEPT ![idx] = "nopath"]
          /\ pc' = "m_body"
          /\ UNCHANGED <<total, disk, err>>
       \/ \E d \in {"absent", "partial"} :
            /\ dl' = [dl EXCEPT ![idx] = "raised"]
            /\ disk' = [disk EXCEPT ![idx] = d]
            /\ Raise("download")
            /\ UNCHANGED <<file_path, total>>
    /\ UNCHANGED <<idx, acked, response, retry, error, sleeps, raised, retval,
                   fixedVars, begun, finished, failed, inserts, calls,
                   playlistErr>>

\* body = {... metadata['title'] ...}
MBody ==
    /\ pc = "m_body"
    /\ \/ /\ pc' = "m_media"
          /\ UNCHANGED err
       \/ Raise("body")
    /\ UNCHANGED <<idx, file_path, uploadVars, fixedVars, begun, finished,
                   failed, dl, disk, inserts, calls, playlistErr>>

\* MMedia as it would be if a missing file path were not rejected.
MMedia_AcceptsNone ==
    /\ pc = "m_media"
    /\ pc' = "m_insert"
    /\ UNCHANGED <<idx, file_path, uploadVars, fixedVars, itemVars>>

\* media = MediaFileUpload(file_path, ...): opening None raises
MMedia ==
    /\ pc = "m_media"
    /\ IF file_path = NoPath
       THEN Raise("media")
       ELSE /\ pc' = "m_insert"
            /\ UNCHANGED err
    /\ UNCHANGED <<idx, file_path, uploadVars, fixedVars, begun, finished,
                   failed, dl, disk, inserts, calls, playlistErr>>

\* upload_request = youtube.videos().insert(...); response = None
MInsert ==
    /\ pc = "m_insert"
    /\ inserts' = [inserts EXCEPT ![idx] = @ + 1]
    /\ acked' = 0
    /\ response' = "None"
    /\ pc' = "m_upload"
    /\ UNCHANGED <<idx, file_path, total, retry, error, sleeps, raised, retval,
                   fixedVars, begun, finished, failed, dl, disk, calls, err,
                   playlistErr>>

\* while response is None: status, response = upload_request.next_chunk()
MUpload ==
    /\ pc = "m_upload"
    /\ response = "None"
    /\ calls' = [calls EXCEPT ![idx] = @ + 1]
    /\ \E o \in NextChunkOutcomes(acked, total) :
         CASE o = "progress" ->
                /\ acked' = acked + 1
                /\ UNCHANGED <<response, pc, err>>
           [] o \in {"id", "noid"} ->
                /\ acked' = total
                /\ response' = o
                /\ pc' = "m_video_id"
                /\ UNCHANGED err
           [] OTHER ->
                /\ Raise(o)
                /\ UNCHANGED <<acked, response>>
    /\ UNCHANGED <<idx, file_path, total, retry, error, sleeps, raised, retval,
                   fixedVars, begun, finished, failed, dl, disk, inserts,
                   playlistErr>>

\* MVideoId as it would be with response['id'] in place of response.get('id').
MVideoId_KeyError ==
    /\ pc = "m_video_id"
    /\ IF response = "id"
       THEN /\ pc' = "m_playlist"
            /\ UNCHANGED err
       ELSE Raise("video_id")
    /\ UNCHANGED <<idx, file_path, uploadVars, fixedVars, begun, finished,
                   failed, dl, disk, inserts, calls, playlistErr>>

\* video_id = response.get('id'); if video_id: (playlist step)
MVideoId ==
    /\ pc = "m_video_id"
    /\ pc' = (IF response = "id" THEN "m_playlist" ELSE "m_cleanup")
    /\ UNCHANGED <<idx, file_path, uploadVars, itemVars, fixedVars>>

\* MPlaylist as it would be without the inner try/except.
MPlaylist_Propagates ==
    /\ pc = "m_playlist"
    /\ \E ok \in BOOLEAN :
         /\ playlistErr' = (IF ok THEN playlistErr ELSE playlistErr \cup {idx})
         /\ IF ok
            THEN /\ pc' = "m_cleanup"
                 /\ UNCHANGED err
            ELSE Raise("playlist")
    /\ UNCHANGED <<idx, file_path, uploadVars, fixedVars, begun, finished,
                   failed, dl, disk, inserts, calls>>

\* try: get_or_create_playlist(...); playlistItems().insert(...).execute()
\* except Exception as e: print(f"Playlist Error: {e}")
MPlaylist ==
    /\ pc = "m_playlist"
    /\ \E ok \in BOOLEAN :
         playlistErr' = (IF ok THEN playlistErr ELSE playlistErr \cup {idx})
    /\ pc' = "m_cleanup"
    /\ UNCHANGED <<idx, file_path, uploadVars, fixedVars, begun, finished,
                   failed, dl, disk, inserts, calls, err>>

\* if os.path.exists(file_path): os.remove(file_path)
\* (os.path.exists(None) raises TypeError)
MCleanup ==
    /\ pc = "m_cleanup"
    /\ IF file_path = NoPath
       THEN /\ Raise("cleanup")
            /\ UNCHANGED <<disk, finished>>
       ELSE /\ disk' = (IF disk[file_path] # "absent"
                        THEN [disk EXCEPT ![file_path] = "absent"]
                        ELSE disk)
            /\ finished' = finished \cup {idx}
            /\ pc' = "m_for"
            /\ UNCHANGED err
    /\ UNCHANGED <<idx, file_path, uploadVars, fixedVars, begun, failed, dl,
                   inserts, calls, playlistErr>>

\* MExcept as it would be if a per-item failure ended the loop.
MExcept_Halts ==
    /\ pc = "m_except"
    /\ failed' = failed \cup {idx}
    /\ finished' = finished \cup {idx}
    /\ pc' = "m_disconnect"
    /\ UNCHANGED <<idx, file_path, uploadVars, fixedVars, begun, dl, disk,
                   inserts, calls, err, playlistErr>>

\* except Exception as e: print(f"FAILED to process link {link}: {e}")
MExcept ==
    /\ pc = "m_except"
    /\ failed' = failed \cup {idx}
    /\ finished' = finished \cup {idx}
    /\ pc' = "m_for"
    /\ UNCHANGED <<idx, file_path, uploadVars, fixedVars, begun, dl, disk,
                   inserts, calls, err, playlistErr>>

\* await client.disconnect()
MDisconnect ==
    /\ pc = "m_disconnect"
    /\ pc' = "done"
    /\ UNCHANGED <<idx, file_path, uploadVars, itemVars, fixedVars>>

(***************************************************************************)
(* uploader_script.py: download_video_and_upload(link)                     *)
(***************************************************************************)

\* if not all(required_secrets): sys.exit(1)
DSecrets ==
    /\ pc = "d_secrets"
    /\ \E present \in BOOLEAN :
           pc' = (IF present THEN "d_parse" ELSE "exit")
    /\ UNCHANGED <<idx, file_path, uploadVars, itemVars, fixedVars>>

\* channel_id, message_id = parse_telegram_link(link): sys.exit(1) on error
DParse ==
    /\ pc = "d_parse"
    /\ \E ok \in BOOLEAN :
           /\ pc' = (IF ok THEN "d_connect" ELSE "exit")
           /\ begun' = (IF ok THEN begun \cup {idx} ELSE begun)
    /\ UNCHANGED <<idx, file_path, uploadVars, fixedVars, finished, failed, dl,
                   disk, inserts, calls, err, playlistErr>>

\* client = TelegramClient(session, ...); await client.start()
DConnect ==
    /\ pc = "d_connect"
    /\ \/ /\ client' = TRUE
          /\ pc' = "d_get_messages"
          /\ UNCHANGED err
       \/ \E created \in BOOLEAN :
            /\ client' = created
            /\ err' = [err EXCEPT ![idx] = "connect"]
            /\ pc' = "d_except"
    /\ UNCHANGED <<idx, file_path, uploadVars, script, links, exiting, begun,
                   finished, failed, dl, disk, inserts, calls, playlistErr>>

\* message = await client.get_messages(...); unsupported media: return
DGetMessages ==
    /\ pc = "d_get_messages"
    /\ \/ /\ pc' = "d_download"
          /\ UNCHANGED err
       \/ /\ pc' = "d_finally"
          /\ UNCHANGED err
       \/ /\ err' = [err EXCEPT ![idx] = "get_messages"]
          /\ pc' = "d_except"
    /\ UNCHANGED <<idx, file_path, uploadVars, fixedVars, begun, finished,
                   failed, dl, disk, inserts, calls, playlistErr>>

\* downloaded_filepath = await client.download_media(message, file_name)
DDownload ==
    /\ pc = "d_download"
    /\ \/ \E n \in 1..MaxChunks :
            /\ file_path' = idx
            /\ total' = n
            /\ dl' = [dl EXCEPT ![idx] = "path"]
            /\ disk' = [disk EXCEPT ![idx] = "complete"]
            /\ pc' = "d_title"
            /\ UNCHANGED err
       \/ /\ file_path' = NoPath
          /\ dl' = [dl EXCEPT ![idx] = "nopath"]
          /\ pc' = "d_title"
          /\ UNCHANGED <<total, disk, err>>
       \/ \E d \in {"absent", "partial"} :
            /\ dl' = [dl EXCEPT ![idx] = "raised"]
            /\ disk' = [disk EXCEPT ![idx] = d]
            /\ err' = [err EXCEPT ![idx] = "download"]
            /\ pc' = "d_except"
            /\ UNCHANGED <<file_path, total>>
    /\ UNCHANGED <<idx, acked, response, retry, error, sleeps, raised, retval,
                   fixedVars, begun, finished, failed, inserts, calls,
                   playlistErr>>

\* title = os.path.basename(downloaded_filepath): raises TypeError on None
DTitle ==
    /\ pc = "d_title"
    /\ IF file_path = NoPath
       THEN /\ err' = [err EXCEPT ![idx] = "title"]
            /\ pc' = "d_except"
       ELSE /\ pc' = "d_auth"
            /\ UNCHANGED err
    /\ UNCHANGED <<idx, file_path, uploadVars, fixedVars, begun, finished,
                   failed, dl, disk, inserts, calls, playlistErr>>

\* youtube_service = get_youtube_service(...): sys.exit(1) on any error
DAuth ==
    /\ pc = "d_auth"
    /\ \/ /\ pc' = "u_insert"
          /\ UNCHANGED exiting
       \/ /\ exiting' = TRUE
          /\ pc' = "d_finally"
    /\ UNCHANGED <<idx, file_path, uploadVars, script, links, client,
                   itemVars>>

\* except Exception as e: print(...)
DExcept ==
    /\ pc = "d_except"
    /\ failed' = failed \cup {idx}
    /\ pc' = "d_finally"
    /\ UNCHANGED <<idx, file_path, uploadVars, fixedVars, begun, finished, dl,
                   disk, inserts, calls, err, playlistErr>>

\* finally: disconnect; remove downloaded_filepath when set and present
DFinally ==
    /\ pc = "d_finally"
    /\ disk' = (IF file_path # NoPath /\ disk[file_path] # "absent"
                THEN [disk EXCEPT ![file_path] = "absent"]
                ELSE disk)
    /\ finished' = finished \cup {idx}
    /\ pc' = (IF exiting THEN "exit" ELSE "done")
    /\ UNCHANGED <<idx, file_path, uploadVars, fixedVars, begun, failed, dl,
                   inserts, calls, err, playlistErr>>

(***************************************************************************)
(* uploader_script.py: upload_video(youtube, filepath, title, description)  *)
(***************************************************************************)

\* media = MediaFileUpload(...); request = youtube.videos().insert(...)
\* response = None; error = None; retry = 0
UInsert ==
    /\ pc = "u_insert"
    /\ inserts' = [inserts EXCEPT ![idx] = @ + 1]
    /\ acked' = 0
    /\ response' = "None"
    /\ error' = "None"
    /\ retry' = 0
    /\ pc' = "u_loop"
    /\ UNCHANGED <<idx, file_path, total, sleeps, raised, retval, fixedVars,
                   begun, finished, failed, dl, disk, calls, err, playlistErr>>

\* while response is None:  ...  return None
ULoop ==
    /\ pc = "u_loop"
    /\ IF response = "None"
       THEN /\ pc' = "u_next_chunk"
            /\ UNCHANGED retval
       ELSE /\ retval' = "None"
            /\ pc' = "d_finally"
    /\ UNCHANGED <<idx, file_path, total, acked, response, retry, error,
                   sleeps, raised, itemVars, fixedVars>>

\* try: status, response = request.next_chunk()
\*      if response is not None: return response['id'], or raise Exception
UNextChunk ==
    /\ pc = "u_next_chunk"
    /\ calls' = [calls EXCEPT ![idx] = @ + 1]
    /\ \E o \in NextChunkOutcomes(acked, total) :
         CASE o = "progress" ->
                /\ acked' = acked + 1
                /\ pc' = "u_loop"
                /\ UNCHANGED <<response, error, raised, retval>>
           [] o = "id" ->
                /\ acked' = total
                /\ response' = "id"
                /\ retval' = "id"
                /\ pc' = "d_finally"
                /\ UNCHANGED <<error, raised>>
           [] o = "noid" ->
                /\ acked' = total
                /\ response' = "noid"
                /\ error' = "noid"
                /\ pc' = "u_except"
                /\ UNCHANGED <<raised, retval>>
           [] OTHER ->
                /\ error' = o
                /\ raised' = raised + 1
                /\ pc' = "u_except"
                /\ UNCHANGED <<acked, response, retval>>
    /\ UNCHANGED <<idx, file_path, total, retry, sleeps, fixedVars, begun,
                   finished, failed, dl, disk, inserts, err, playlistErr>>

\* UExcept as it would be if a retry began a new upload session.
UExcept_Reinit ==
    /\ pc = "u_except"
    /\ retry' = retry + 1
    /\ IF retry + 1 > MAX_RETRIES
       THEN /\ retval' = "None"
            /\ pc' = "d_finally"
            /\ UNCHANGED <<sleeps, inserts, acked>>
       ELSE /\ sleeps' = Append(sleeps, 2 ^ (retry + 1))
            /\ inserts' = [inserts EXCEPT ![idx] = @ + 1]
            /\ acked' = 0
            /\ pc' = "u_loop"
            /\ UNCHANGED retval
    /\ UNCHANGED <<idx, file_path, total, response, error, raised, fixedVars,
                   begun, finished, failed, dl, disk, calls, err, playlistErr>>

\* UExcept as it would be with the budget test off by one (retry >= MAX_RETRIES).
UExcept_OffByOne ==
    /\ pc = "u_except"
    /\ retry' = retry + 1
    /\ IF retry + 1 >= MAX_RETRIES
       THEN /\ retval' = "None"
            /\ pc' = "d_finally"
            /\ UNCHANGED sleeps
       ELSE /\ sleeps' = Append(sleeps, 2 ^ (retry + 1))
            /\ pc' = "u_loop"
            /\ UNCHANGED retval
    /\ UNCHANGED <<idx, file_path, total, acked, response, error, raised,
                   itemVars, fixedVars>>

\* except Exception as e: retry += 1; if retry > MAX_RETRIES: break
\*     sleep_time = 2 ** retry; time.sleep(sleep_time)
UExcept ==
    /\ pc = "u_except"
    /\ retry' = retry + 1
    /\ IF retry + 1 > MAX_RETRIES
       THEN /\ retval' = "None"
            /\ pc' = "d_finally"
            /\ UNCHANGED sleeps
       ELSE /\ sleeps' = Append(sleeps, 2 ^ (retry + 1))
            /\ pc' = "u_loop"
            /\ UNCHANGED retval
    /\ UNCHANGED <<idx, file_path, total, acked, response, error, raised,
                   itemVars, fixedVars>>

Next ==
    \/ MStart
    \/ MConnect
    \/ MFor
    \/ MResolve
    \/ MGetMessages
    \/ MAnalyze
    \/ MDownload
    \/ MBody
    \/ MMedia
    \/ MInsert
    \/ MUpload
    \/ MVideoId
    \/ MPlaylist
    \/ MCleanup
    \/ MExcept
    \/ MDisconnect
    \/ DSecrets
    \/ DParse
    \/ DConnect
    \/ DGetMessages
    \/ DDownload
    \/ DTitle
    \/ DAuth
    \/ DExcept
    \/ DFinally
    \/ UInsert
    \/ ULoop
    \/ UNextChunk
    \/ UExcept

Spec == Init /\ [][Next]_vars

TypeOK ==
    /\ script \in {"batch", "single"}
    /\ idx \in 0..Len(links)
    /\ file_path \in 0..Len(links)
    /\ acked \in 0..MaxChunks
    /\ begun \subseteq Items
    /\ finished \subseteq begun
    /\ failed \subseteq begun

(***************************************************************************)
(* Properties                                                              *)
(***************************************************************************)

NonEmpty == {i \in Items : links[i] # ""}
LoopOver == pc \in {"m_disconnect", "done"}
Backoff == <<2, 4, 8, 16, 32>>
Min(a, b) == IF a < b THEN a ELSE b

\* C1: in the batch script every item whose download produced a local file
\* has that file deleted by the time the item's processing ends, whatever
\* the exit path.
C1_FileDeletedOnEveryExit ==
    script = "batch" =>
        \A i \in finished : dl[i] = "path" => disk[i] = "absent"

\* C2: a quota error raised by the upload of item k halts the batch: no
\* later item is begun, and what is recorded for items before k is unchanged.
C2_QuotaHaltsBatch ==
    [][\A k \in Items :
          (script = "batch" /\ err[k] = "quota") =>
              /\ begun' \subseteq 1..k
              /\ \A j \in 1..(k - 1) :
                    /\ (j \in failed') = (j \in failed)
                    /\ (j \in finished') = (j \in finished)]_vars

\* C3: a per-item failure never halts the batch: items are processed one at
\* a time in list order (an item begins only when every non-empty link
\* before it has ended), the loop head has dealt with exactly the non-empty
\* links up to its index, and the loop ends only when every non-empty link
\* has been processed.
C3_FailureNeverHalts ==
    script = "batch" =>
        /\ \A i \in begun : \A j \in 1..(i - 1) : links[j] # "" => j \in finished
        /\ begun = {i \in NonEmpty : i <= idx}
        /\ pc = "m_for" => finished = begun
        /\ LoopOver => finished = NonEmpty
        /\ failed \subseteq finished

C3_Witness ==
    /\ script = "batch"
    /\ pc = "done"
    /\ \E i \in failed : \E j \in finished \ failed :
          /\ j > i
          /\ err[i] = "download"
          /\ inserts[j] = 1
          /\ disk[j] = "absent"

\* C4: in upload_video a quota error from next_chunk() aborts at once: no
\* further next_chunk() call, no backoff sleep, and the value returned is
\* not the one returned for an ordinary failure (None).
C4_QuotaAbortsUpload ==
    [][(script = "single" /\ error = "quota") =>
          /\ calls' = calls
          /\ sleeps' = sleeps
          /\ retval' # "None"]_vars

\* C5: in upload_video the session is created once per call; after a
\* transient error with retries left the function sleeps once and then calls
\* next_chunk() on the same request, and the acknowledged offset never
\* decreases.
C5_RetrySameSession ==
    [][script = "single" =>
          /\ inserts'[1] <= 1
          /\ acked' >= acked
          /\ (pc = "u_except" /\ error = "transient" /\ retry < MAX_RETRIES) =>
                /\ pc' = "u_loop"
                /\ response' = "None"
                /\ inserts' = inserts
                /\ acked' = acked
                /\ Len(sleeps') = Len(sleeps) + 1
          /\ (pc = "u_loop" /\ response = "None") =>
                /\ pc' = "u_next_chunk"
                /\ inserts' = inserts
                /\ acked' = acked]_vars

C5_Witness ==
    /\ script = "single"
    /\ retval = "id"
    /\ error = "transient"
    /\ total = 2
    /\ acked = 2
    /\ calls[1] = 3
    /\ inserts[1] = 1

\* C6: in the batch script a transient error of an upload chunk is recovered
\* inside the upload step: it does not make the item reported as FAILED.
C6_TransientRecoveredInBatch ==
    script = "batch" =>
        \A i \in Items : err[i] = "transient" => i \notin failed

\* C7: upload_video's retry budget: over the whole upload at most
\* MAX_RETRIES + 1 calls of next_chunk() raise, the counter is never below
\* the number of raising calls, the sleeps are 2, 4, 8, 16, 32 in that order,
\* one per failure for the first five failures, and after the sixth failure
\* the function returns None with no further sleep or call.
C7_BoundedRetry ==
    script = "single" =>
        /\ raised <= MAX_RETRIES + 1
        /\ retry <= MAX_RETRIES + 1
        /\ raised <= (IF pc = "u_except" THEN retry + 1 ELSE retry)
        /\ Len(sleeps) = Min(retry, MAX_RETRIES)
        /\ sleeps = SubSeq(Backoff, 1, Len(sleeps))
        /\ (retry = MAX_RETRIES + 1) =>
              /\ retval = "None"
              /\ pc \in {"d_finally", "done"}
        /\ (raised = MAX_RETRIES + 1) =>
              \/ pc = "u_except" /\ retry = MAX_RETRIES /\ error # "noid"
              \/ retry = MAX_RETRIES + 1

C7_Witness ==
    /\ script = "single"
    /\ raised = MAX_RETRIES + 1
    /\ retval = "None"
    /\ acked >= 1
    /\ sleeps = Backoff
    /\ calls[1] = MAX_RETRIES + 2

\* C8: in upload_video an error that is neither transient nor a quota error,
\* a terminal response without 'id' included, is not retried: no further
\* next_chunk() call follows it.
C8_PermanentNotRetried ==
    [][(script = "single" /\ error \in {"other", "noid"}) =>
          calls' = calls]_vars

\* C9: in the batch script, a failure of the playlist step after an upload
\* that returned a video id does not fail the item: the item is not reported
\* FAILED, the cleanup is the next step and removes the local file, and the
\* loop goes on to the later links.
C9_PlaylistBestEffort ==
    script = "batch" =>
        \A i \in playlistErr :
            /\ i \notin failed
            /\ err[i] = "none"
            /\ i \notin finished => (pc = "m_cleanup" /\ idx = i)
            /\ i \in finished => disk[i] = "absent"
            /\ LoopOver =>
                  \A j \in NonEmpty : j > i => j \in finished

C9_Witness ==
    /\ script = "batch"
    /\ \E i \in playlistErr :
          /\ i \in finished
          /\ disk[i] = "absent"
          /\ \E j \in begun : j > i

\* C10: in both scripts no upload is begun for an item whose download
\* failed: a videos().insert request or a next_chunk() call exists for an
\* item only if its download returned a file path, and the upload steps run
\* on the complete file of the current item.
UploadPcs ==
    {"m_insert", "m_upload", "m_video_id", "u_insert", "u_loop",
     "u_next_chunk", "u_except"}

C10_NoUploadAfterFailedDownload ==
    /\ \A i \in Items :
          (inserts[i] > 0 \/ calls[i] > 0) => dl[i] = "path"
    /\ pc \in UploadPcs =>
          /\ dl[idx] = "path"
          /\ file_path = idx
          /\ disk[idx] = "complete"

C10_Witness ==
    /\ script = "batch"
    /\ \E i \in finished : \E j \in finished :
          /\ dl[i] = "nopath"
          /\ inserts[i] = 0
          /\ calls[i] = 0
          /\ dl[j] = "path"
          /\ inserts[j] = 1

\* C11: in the single-item script, once the Telegram client exists, every
\* way out of download_video_and_upload leaves no local file of the item on
\* disk.
C11_SingleFileRemovedOnExit ==
    (script = "single" /\ client /\ pc \in {"done", "exit"}) =>
        disk[1] = "absent"

\* Companion of C11: on every such exit the file is gone whenever
\* download_media returned its path (downloaded_filepath was set).
ReturnedPathRemovedOnExit ==
    (script = "single" /\ client /\ pc \in {"done", "exit"}) =>
        (dl[1] = "path" => disk[1] = "absent")

\* The state of the work item of link i in the life cycle of the spec, read
\* off the position of main: the step the loop is at for the current item,
\* and for an exception on its way to the except clause the step that
\* raised it.
StateOfStep(step) ==
    CASE step \in {"m_resolve", "m_get_messages", "m_analyze",
                   "resolve", "get_messages", "analyze"} -> "PENDING"
      [] step \in {"m_download", "download"} -> "DOWNLOADING"
      [] step \in {"m_body", "m_media", "m_insert", "body", "media"} -> "DOWNLOADED"
      [] step \in {"m_upload"} \cup ChunkErrors -> "UPLOADING"
      [] OTHER -> "UPLOADED"

ItemState(i) ==
    IF i \notin begun THEN "NONE"
    ELSE IF i \in failed THEN "FAILED"
    ELSE IF i \in finished THEN (IF dl[i] = "none" THEN "SKIPPED" ELSE "CLEANED")
    ELSE IF pc = "m_except" THEN StateOfStep(err[i])
    ELSE StateOfStep(pc)

LifeCycle ==
    {<<"NONE", "PENDING">>, <<"PENDING", "DOWNLOADING">>,
     <<"DOWNLOADING", "DOWNLOADED">>, <<"DOWNLOADED", "UPLOADING">>,
     <<"UPLOADING", "UPLOADED">>, <<"UPLOADED", "CLEANED">>,
     <<"PENDING", "SKIPPED">>}

\* An item that has been reported failed is touched by no later step.
Untouched(i) ==
    /\ i \in failed'
    /\ dl'[i] = dl[i]
    /\ disk'[i] = disk[i]
    /\ inserts'[i] = inserts[i]
    /\ calls'[i] = calls[i]
    /\ err'[i] = err[i]

Follows(Edges) ==
    script = "batch" =>
        \A i \in Items :
            /\ ItemState(i)' = ItemState(i) \/ <<ItemState(i), ItemState(i)'>> \in Edges
            /\ i \in failed => Untouched(i)

====
